---- MODULE Spec2Model ----
(***************************************************************************)
(* Model of simple_dashboard.py: the per-material analysis helper          *)
(* perform_analysis (filter, skewness, IQR trim, median) and the script's  *)
(* "Analyze Data" handler (analysis loop, combine loop, the two sorted     *)
(* displays).                                                              *)
(*                                                                         *)
(* Representation.                                                         *)
(*  - A string is a tuple of one-character strings.                        *)
(*  - A float is a record [nan, num]; num counts eighths, so that the      *)
(*    quartiles of integer data (multiples of 1/4), 1.5 * IQR (multiples   *)
(*    of 1/8) and the medians (multiples of 1/2) are all exact.            *)
(*  - A cell of the description column is a record [isna, str].            *)
(*  - A data frame is a sequence of rows [desc, ee, ec].                   *)
(***************************************************************************)
EXTENDS Integers, Sequences, FiniteSets, TLC

VARIABLES
    df,                  \* the uploaded data frame
    primary_materials,   \* list of primary material names
    secondary_materials, \* keys of the secondary_materials dict
    mapping,             \* dict primary -> selected secondary
    material,            \* argument of the current perform_analysis call
    result,              \* what the last perform_analysis call returned
    analysis_results,    \* dict material -> summary
    pending,             \* members of all_materials the loop has not visited
    combined,            \* list of comparison rows
    sorted_ee,           \* row labels of df_combined.sort_values("Combined EE")
    sorted_ec,           \* row labels of df_combined.sort_values("Combined EC")
    pc                   \* position of the script

vars == <<df, primary_materials, secondary_materials, mapping, material, result,
          analysis_results, pending, combined, sorted_ee, sorted_ec, pc>>

(***************************************************************************)
(* Bounds of the model.                                                    *)
(***************************************************************************)
MaxPrimary == 2     \* length of primary_materials (pipeline)
MaxRows == 2        \* rows of the data frame (pipeline)
MaxSample == 4      \* rows of the data frame (statistics)
MaxValue == 2       \* largest metric value (statistics)
MaxDescLen == 2     \* length of a description (matching)
MaxPatLen == 2      \* length of a material name (matching)
MaxMatchRows == 1   \* rows of the data frame (matching)

\* range(1, 4): three secondary-material text inputs
NumSecondaryInputs == 3

----------------------------------------------------------------------------
(***************************************************************************)
(* Generic helpers.                                                        *)
(***************************************************************************)
SeqsUpTo(S, n) == UNION {[1..k -> S] : k \in 0..n}

Range(s) == {s[i] : i \in 1..Len(s)}

RECURSIVE Insert(_, _)
Insert(x, s) ==
    IF s = <<>> THEN <<x>>
    ELSE IF x <= Head(s) THEN <<x>> \o s
    ELSE <<Head(s)>> \o Insert(x, Tail(s))

RECURSIVE SortInts(_)
SortInts(s) == IF s = <<>> THEN <<>> ELSE Insert(Head(s), SortInts(Tail(s)))

(***************************************************************************)
(* Floats.                                                                 *)
(***************************************************************************)
NaN == [nan |-> TRUE, num |-> 0]
Eighths(k) == [nan |-> FALSE, num |-> k]
Num(v) == Eighths(8 * v)

\* IEEE comparisons: false when either side is NaN
Ge(a, b) == ~a.nan /\ ~b.nan /\ a.num >= b.num
Le(a, b) == ~a.nan /\ ~b.nan /\ a.num <= b.num
Add(a, b) == IF a.nan \/ b.nan THEN NaN ELSE Eighths(a.num + b.num)
Sub(a, b) == IF a.nan \/ b.nan THEN NaN ELSE Eighths(a.num - b.num)
\* 1.5 * x; x is a difference of quartiles, an even number of eighths
OneAndAHalf(x) == IF x.nan THEN NaN ELSE Eighths((3 * x.num) \div 2)

(***************************************************************************)
(* Strings and Series.str.contains(material, case=False, na=False).        *)
(* regex=True is the default, so the material is compiled as a regular     *)
(* expression with re.IGNORECASE.  The pattern alphabet of the model is    *)
(* letters, "." (any character) and "(" (opens a group; the alphabet has   *)
(* no ")", so a pattern holding "(" does not compile: re.error).           *)
(***************************************************************************)
Lower(c) == CASE c = "A" -> "a" [] c = "B" -> "b" [] OTHER -> c

NullCell == [isna |-> TRUE, str |-> <<>>]
Cell(s) == [isna |-> FALSE, str |-> s]

PatternCompiles(pat) == \A i \in 1..Len(pat) : pat[i] # "("

CharMatches(p, c) == p = "." \/ Lower(p) = Lower(c)

re_search(pat, s) ==
    \E i \in 0..(Len(s) - Len(pat)) :
        \A j \in 1..Len(pat) : CharMatches(pat[j], s[i + j])

str_contains(cell, pat) == IF cell.isna THEN FALSE ELSE re_search(pat, cell.str)

\* df[mask]: the rows whose description matches, in order
RECURSIVE FilterRows(_, _)
FilterRows(d, pat) ==
    IF d = <<>> THEN <<>>
    ELSE (IF str_contains(Head(d).desc, pat) THEN <<Head(d)>> ELSE <<>>)
         \o FilterRows(Tail(d), pat)

(***************************************************************************)
(* Series operations used by perform_analysis.                             *)
(***************************************************************************)
EmbodiedEnergy(d) == [i \in 1..Len(d) |-> d[i].ee]
EmbodiedCarbon(d) == [i \in 1..Len(d) |-> d[i].ec]

IsNumber(x) == ~x.nan
dropna(s) == SelectSeq(s, IsNumber)

\* the non-null values of a series, ascending, in eighths
SortedValues(s) == SortInts([i \in 1..Len(dropna(s)) |-> dropna(s)[i].num])

\* scipy.stats.skew of a sample: nan for an empty sample; otherwise a real
\* number determined by the sample's multiset of values, carried here as
\* that multiset (the value itself is irrational in general).
skew(a) ==
    IF Len(a) = 0 THEN [nan |-> TRUE, sample |-> <<>>]
    ELSE [nan |-> FALSE, sample |-> SortedValues(a)]

\* Series.quantile(q), q = quarters/4, interpolation="linear", nulls skipped:
\* position (n - 1) * q among the sorted values, linear between neighbours.
quantile(s, quarters) ==
    LET v == SortedValues(s)
        n == Len(v)
        pos4 == (n - 1) * quarters
        lo == pos4 \div 4
        fr == pos4 % 4
    IN  IF n = 0 THEN NaN
        ELSE IF fr = 0 THEN Eighths(v[lo + 1])
        ELSE Eighths(v[lo + 1] + (fr * (v[lo + 2] - v[lo + 1])) \div 4)

\* median with a missing result replaced by 0
median_zero_default(s) ==
    LET v == SortedValues(s)
        n == Len(v)
    IN  IF n = 0 THEN Eighths(0)
        ELSE IF n % 2 = 1 THEN Eighths(v[(n + 1) \div 2])
        ELSE Eighths((v[n \div 2] + v[n \div 2 + 1]) \div 2)

\* Series.median(), nulls skipped: the middle value, or the mean of the two
\* middle values; nan for a series without values.
median(s) ==
    LET v == SortedValues(s)
        n == Len(v)
    IN  IF n = 0 THEN NaN
        ELSE IF n % 2 = 1 THEN Eighths(v[(n + 1) \div 2])
        ELSE Eighths((v[n \div 2] + v[n \div 2 + 1]) \div 2)

\* iqr_clean without the trim
iqr_clean_untrimmed(col) == dropna(col)

\* iqr_clean with strict comparisons: col > Q1 - 1.5 * IQR, col < Q3 + 1.5 * IQR
iqr_clean_strict(col) ==
    LET Q1 == quantile(col, 1)
        Q3 == quantile(col, 3)
        IQR == Sub(Q3, Q1)
        Keep(v) == /\ Ge(v, Sub(Q1, OneAndAHalf(IQR)))
                   /\ Le(v, Add(Q3, OneAndAHalf(IQR)))
                   /\ v # Sub(Q1, OneAndAHalf(IQR))
                   /\ v # Add(Q3, OneAndAHalf(IQR))
    IN  SelectSeq(col, Keep)

\* col[(col >= Q1 - 1.5 * IQR) & (col <= Q3 + 1.5 * IQR)]
iqr_clean(col) ==
    LET Q1 == quantile(col, 1)
        Q3 == quantile(col, 3)
        IQR == Sub(Q3, Q1)
        Keep(v) == /\ Ge(v, Sub(Q1, OneAndAHalf(IQR)))
                   /\ Le(v, Add(Q3, OneAndAHalf(IQR)))
    IN  SelectSeq(col, Keep)

None == [tag |-> "None"]

\* perform_analysis without the early return: a zero-filled summary
perform_analysis_zero_filled(d, mat) ==
    LET mat_df == FilterRows(d, mat)
        ee_clean == iqr_clean(EmbodiedEnergy(mat_df))
        ec_clean == iqr_clean(EmbodiedCarbon(mat_df))
    IN  [tag |-> "summary",
         skew_ee |-> skew(dropna(EmbodiedEnergy(mat_df))),
         skew_ec |-> skew(dropna(EmbodiedCarbon(mat_df))),
         median_ee |-> IF mat_df = <<>> THEN Num(0) ELSE median(ee_clean),
         median_ec |-> IF mat_df = <<>> THEN Num(0) ELSE median(ec_clean),
         data |-> mat_df]

perform_analysis(d, mat) ==
    LET mat_df == FilterRows(d, mat)
        ee_clean == iqr_clean(EmbodiedEnergy(mat_df))
        ec_clean == iqr_clean(EmbodiedCarbon(mat_df))
    IN  IF mat_df = <<>> THEN None
        ELSE [tag |-> "summary",
              skew_ee |-> skew(dropna(EmbodiedEnergy(mat_df))),
              skew_ec |-> skew(dropna(EmbodiedCarbon(mat_df))),
              median_ee |-> median(ee_clean),
              median_ec |-> median(ec_clean),
              data |-> mat_df]

----------------------------------------------------------------------------
(***************************************************************************)
(* A single call perform_analysis(df, material): it returns, or the        *)
(* compilation of the material as a regular expression raises.             *)
(***************************************************************************)
Call ==
    /\ pc = "call"
    /\ IF PatternCompiles(material)
         THEN /\ result' = perform_analysis(df, material)
              /\ pc' = "returned"
         ELSE /\ pc' = "raised"
              /\ UNCHANGED result
    /\ UNCHANGED <<df, primary_materials, secondary_materials, mapping, material,
                   analysis_results, pending, combined, sorted_ee, sorted_ec>>

EmptyDict == [x \in {} |-> x]

\* inputs of the matching runs: descriptions and material names as strings
DescAlphabet == {"a", "A", "b"}
PatAlphabet == {"a", "B", ".", "("}
Descriptions == {NullCell} \cup {Cell(s) : s \in SeqsUpTo(DescAlphabet, MaxDescLen)}
MaterialNames == SeqsUpTo(PatAlphabet, MaxPatLen) \ {<<>>}

CallInit ==
    /\ primary_materials = <<>>
    /\ secondary_materials = {}
    /\ mapping = EmptyDict
    /\ result = None
    /\ analysis_results = EmptyDict
    /\ pending = {}
    /\ combined = <<>>
    /\ sorted_ee = <<>>
    /\ sorted_ec = <<>>
    /\ pc = "call"

InitMatch ==
    /\ df \in SeqsUpTo({[desc |-> c, ee |-> Num(1), ec |-> Num(1)] : c \in Descriptions},
                       MaxMatchRows)
    /\ material \in MaterialNames
    /\ CallInit

SpecMatch == InitMatch /\ [][Call]_vars

\* inputs of the statistics runs: every row matches material "a"; one metric
\* ranges over Values, the other over {null, 1}
Values == {NaN} \cup {Num(v) : v \in 0..MaxValue}
Sparse == {NaN, Num(1)}
StatRowsEE == {[desc |-> Cell(<<"a">>), ee |-> x, ec |-> y] : x \in Values, y \in Sparse}
StatRowsEC == {[desc |-> Cell(<<"a">>), ee |-> y, ec |-> x] : x \in Values, y \in Sparse}

\* the sample [10, 12, 11, 13, 9, 1000], as Embodied Energy beside an Embodied
\* Carbon column with nulls, and as Embodied Carbon beside an empty column
ExampleSample == <<10, 12, 11, 13, 9, 1000>>
ExampleEE == [i \in 1..Len(ExampleSample) |->
                [desc |-> Cell(<<"a">>), ee |-> Num(ExampleSample[i]),
                 ec |-> IF i % 2 = 0 THEN NaN ELSE Num(1)]]
ExampleEC == [i \in 1..Len(ExampleSample) |->
                [desc |-> Cell(<<"a">>), ee |-> NaN, ec |-> Num(ExampleSample[i])]]

InitStats ==
    /\ df \in SeqsUpTo(StatRowsEE, MaxSample) \cup SeqsUpTo(StatRowsEC, MaxSample)
              \cup {ExampleEE, ExampleEC}
    /\ material = <<"a">>
    /\ CallInit

SpecStats == InitStats /\ [][Call]_vars

----------------------------------------------------------------------------
(***************************************************************************)
(* The "Analyze Data" handler: the analysis loop over all_materials, the   *)
(* combine loop over primary_materials, and the two sorted displays.       *)
(***************************************************************************)
Put(dict, key, value) ==
    [k \in DOMAIN dict \cup {key} |-> IF k = key THEN value ELSE dict[k]]

\* all_materials = list(set(primary_materials + list(secondary_materials.keys())))
all_materials == Range(primary_materials) \cup secondary_materials

\* One iteration of "for material in all_materials"; a set is iterated in
\* an arbitrary order.  An exception of perform_analysis is not caught: it
\* ends the script run.
Analyze ==
    /\ pc = "analyze"
    /\ \E m \in pending :
        /\ material' = m
        /\ pending' = pending \ {m}
        /\ IF PatternCompiles(m)
             THEN LET r == perform_analysis(df, m)
                  IN  /\ result' = r
                      /\ analysis_results' =
                            IF r # None THEN Put(analysis_results, m, r)
                            ELSE analysis_results
                      /\ pc' = "analyze"
             ELSE /\ pc' = "raised"
                  /\ UNCHANGED <<result, analysis_results>>
    /\ UNCHANGED <<df, primary_materials, secondary_materials, mapping,
                   combined, sorted_ee, sorted_ec>>

\* the string "None"
NoneString == <<"N", "o", "n", "e">>

\* mapping.get(primary): the empty value stands for Python's None
mapping_get(map, primary) == IF primary \in DOMAIN map THEN map[primary] ELSE <<>>

Truthy(name) == name # <<>>

\* combine_row that never adds the secondary's medians
combine_row_primary_only(primary, map, results) ==
    LET secondary == mapping_get(map, primary)
    IN  IF primary \in DOMAIN results
        THEN <<[Primary |-> primary,
                Secondary |-> IF Truthy(secondary) THEN secondary ELSE NoneString,
                CombinedEE |-> results[primary].median_ee,
                CombinedEC |-> results[primary].median_ec]>>
        ELSE <<>>

\* combine_row that emits a row only when a mapped secondary has data too
combine_row_needs_secondary(primary, map, results) ==
    LET secondary == mapping_get(map, primary)
    IN  IF primary \in DOMAIN results
           /\ (Truthy(secondary) => secondary \in DOMAIN results)
        THEN <<[Primary |-> primary,
                Secondary |-> IF Truthy(secondary) THEN secondary ELSE NoneString,
                CombinedEE |-> IF Truthy(secondary)
                               THEN Add(results[primary].median_ee, results[secondary].median_ee)
                               ELSE results[primary].median_ee,
                CombinedEC |-> IF Truthy(secondary)
                               THEN Add(results[primary].median_ec, results[secondary].median_ec)
                               ELSE results[primary].median_ec]>>
        ELSE <<>>

\* the body of "for primary in primary_materials": the rows it appends
combine_row(primary, map, results) ==
    LET secondary == mapping_get(map, primary)
    IN  IF primary \in DOMAIN results
        THEN LET primary_res == results[primary]
                 both == Truthy(secondary) /\ secondary \in DOMAIN results
             IN  <<[Primary |-> primary,
                    Secondary |-> IF Truthy(secondary) THEN secondary ELSE NoneString,
                    CombinedEE |-> IF both
                                   THEN Add(primary_res.median_ee, results[secondary].median_ee)
                                   ELSE primary_res.median_ee,
                    CombinedEC |-> IF both
                                   THEN Add(primary_res.median_ec, results[secondary].median_ec)
                                   ELSE primary_res.median_ec]>>
        ELSE <<>>

RECURSIVE combine(_, _, _)
combine(primaries, map, results) ==
    IF primaries = <<>> THEN <<>>
    ELSE combine_row(Head(primaries), map, results) \o combine(Tail(primaries), map, results)

Combine ==
    /\ pc = "analyze"
    /\ pending = {}
    /\ combined' = combine(primary_materials, mapping, analysis_results)
    /\ pc' = "display"
    /\ UNCHANGED <<df, primary_materials, secondary_materials, mapping, material,
                   result, analysis_results, pending, sorted_ee, sorted_ec>>

SortKey(row, by) == IF by = "Combined EE" THEN row.CombinedEE ELSE row.CombinedEC

LabelOrders(n) == {p \in [1..n -> 1..n] : \A i, j \in 1..n : p[i] = p[j] => i = j}

\* DataFrame.sort_values(by): the row labels in output order.  Rows whose key
\* is NaN go last, in their input order (na_position="last"); the others are
\* ordered by numpy's argsort with kind="quicksort", which is not a stable
\* sort: the order of rows with equal keys is not determined.
sort_values(rows, by) ==
    {p \in LabelOrders(Len(rows)) :
        \A i, j \in 1..Len(rows) :
            i < j =>
                LET a == SortKey(rows[p[i]], by)
                    b == SortKey(rows[p[j]], by)
                IN  /\ a.nan => b.nan
                    /\ (a.nan /\ b.nan) => p[i] < p[j]
                    /\ (~a.nan /\ ~b.nan) => a.num <= b.num}

\* "if combined:" and the two st.dataframe(df_combined.sort_values(...))
Display ==
    /\ pc = "display"
    /\ IF combined # <<>>
         THEN /\ sorted_ee' \in sort_values(combined, "Combined EE")
              /\ sorted_ec' \in sort_values(combined, "Combined EC")
         ELSE UNCHANGED <<sorted_ee, sorted_ec>>
    /\ pc' = "done"
    /\ UNCHANGED <<df, primary_materials, secondary_materials, mapping, material,
                   result, analysis_results, pending, combined>>

Next == Analyze \/ Combine \/ Display

\* inputs of the handler runs
PipeNames == {<<"a">>, <<"b">>, <<"(">>}
PipeRows ==
    {[desc |-> Cell(<<"a">>), ee |-> Num(1), ec |-> Num(2)],
     [desc |-> Cell(<<"a">>), ee |-> NaN, ec |-> Num(1)],
     [desc |-> Cell(<<"b">>), ee |-> Num(1), ec |-> Num(2)],
     [desc |-> Cell(<<"b">>), ee |-> Num(2), ec |-> Num(1)]}

NoDuplicates(s) == \A i, j \in 1..Len(s) : s[i] = s[j] => i = j

\* The state when "Analyze Data" is clicked.  With secondary materials there
\* is one selectbox per primary, keyed by the primary's name (so the names
\* are distinct) and always holding one of the secondary names; without
\* them the mapping is empty.
Init ==
    /\ df \in SeqsUpTo(PipeRows, MaxRows)
    /\ primary_materials \in SeqsUpTo(PipeNames, MaxPrimary)
    /\ secondary_materials \in
          {s \in SUBSET PipeNames : Cardinality(s) <= NumSecondaryInputs}
    /\ secondary_materials # {} => NoDuplicates(primary_materials)
    /\ mapping \in IF secondary_materials = {} THEN {EmptyDict}
                   ELSE [Range(primary_materials) -> secondary_materials]
    /\ material = <<>>
    /\ result = None
    /\ analysis_results = EmptyDict
    /\ pending = all_materials
    /\ combined = <<>>
    /\ sorted_ee = <<>>
    /\ sorted_ec = <<>>
    /\ pc = "analyze"

Spec == Init /\ [][Next]_vars

----------------------------------------------------------------------------
(***************************************************************************)
(* Vocabulary of the properties.                                           *)
(***************************************************************************)
Finished == pc \in {"display", "done"}

\* the material, read as a literal, occurs in the description ignoring case
LiteralContains(cell, mat) ==
    /\ ~cell.isna
    /\ \E i \in 0..(Len(cell.str) - Len(mat)) :
          \A j \in 1..Len(mat) : Lower(mat[j]) = Lower(cell.str[i + j])

HasLiteralMatch(i) == LiteralContains(df[i].desc, material)
LiteralRows == SelectSeq(df, LAMBDA r : LiteralContains(r.desc, material))

MatchedRows == IF result = None THEN <<>> ELSE result.data

\* the analysis of material m returns a summary
HasSummary(m) == PatternCompiles(m) /\ perform_analysis(df, m) # None

PrimaryColumn == [i \in 1..Len(combined) |-> combined[i].Primary]

\* C1: every emitted row whose primary has no mapped secondary, or whose
\* mapped secondary has no summary, carries Secondary = "None".
C1_SecondaryNoneWithoutData ==
    Finished =>
        \A i \in 1..Len(combined) :
            LET secondary == mapping_get(mapping, combined[i].Primary)
            IN  (~Truthy(secondary) \/ secondary \notin DOMAIN analysis_results)
                    => combined[i].Secondary = NoneString

\* C2: every primary with a summary has a row, and every row's Combined EE
\* and Combined EC are primary + secondary medians exactly when a secondary
\* is mapped and has a summary, and the primary's medians alone otherwise.
C2_CombinedSumIffSecondaryHasData ==
    Finished =>
        /\ \A p \in Range(primary_materials) \cap DOMAIN analysis_results :
              \E i \in 1..Len(combined) : combined[i].Primary = p
        /\ \A i \in 1..Len(combined) :
              LET p == combined[i].Primary
                  withSecondary == /\ p \in DOMAIN mapping
                                   /\ mapping[p] \in DOMAIN analysis_results
              IN  /\ p \in DOMAIN analysis_results
                  /\ withSecondary =>
                       /\ combined[i].CombinedEE =
                            Add(analysis_results[p].median_ee,
                                analysis_results[mapping[p]].median_ee)
                       /\ combined[i].CombinedEC =
                            Add(analysis_results[p].median_ec,
                                analysis_results[mapping[p]].median_ec)
                  /\ ~withSecondary =>
                       /\ combined[i].CombinedEE = analysis_results[p].median_ee
                       /\ combined[i].CombinedEC = analysis_results[p].median_ec

C2_Witness ==
    /\ pc = "done"
    /\ \E i \in 1..Len(combined) :
          LET p == combined[i].Primary
          IN  /\ p \in DOMAIN mapping
              /\ mapping[p] # p
              /\ mapping[p] \in DOMAIN analysis_results
              /\ combined[i].CombinedEE # analysis_results[p].median_ee
              /\ combined[i].CombinedEC # analysis_results[p].median_ec

KeyLe(a, b) == b.nan \/ (~a.nan /\ a.num <= b.num)

IsStableSortOf(p, rows, by) ==
    /\ p \in LabelOrders(Len(rows))
    /\ \A i, j \in 1..Len(rows) :
          i < j =>
              /\ KeyLe(SortKey(rows[p[i]], by), SortKey(rows[p[j]], by))
              /\ SortKey(rows[p[i]], by) = SortKey(rows[p[j]], by) => p[i] < p[j]

\* C4: each of the two displayed orderings is a permutation of the rows in
\* non-decreasing order of its metric in which rows with equal metric keep
\* their input order, and the row collection itself is left as combined.
C4_SortedStableUnmutated ==
    pc = "done" =>
        /\ IsStableSortOf(sorted_ee, combined, "Combined EE")
        /\ IsStableSortOf(sorted_ec, combined, "Combined EC")
        /\ combined = combine(primary_materials, mapping, analysis_results)

\* a call of the loop has returned into result
LoopReturned == pc = "analyze" /\ pending # all_materials

\* C5: a call returns None exactly when no description matches the material
\* (as the filter decides it); every summary returned, and every entry of
\* analysis_results, carries a non-empty matched subset; a material without
\* matching records has no entry.
C5_NoMatchIffNoRecordMatches ==
    /\ LoopReturned =>
          /\ result = None <=> \A i \in 1..Len(df) : ~str_contains(df[i].desc, material)
          /\ result # None => result.tag = "summary" /\ result.data # <<>>
    /\ \A m \in DOMAIN analysis_results :
          /\ analysis_results[m].tag = "summary"
          /\ analysis_results[m].data # <<>>
          /\ \E i \in 1..Len(df) : str_contains(df[i].desc, m)
    /\ \A m \in all_materials \ pending :
          (\A i \in 1..Len(df) : ~str_contains(df[i].desc, m))
              => m \notin DOMAIN analysis_results

C5_Witness ==
    /\ LoopReturned
    /\ result = None
    /\ df # <<>>
    /\ material \notin DOMAIN analysis_results
    /\ DOMAIN analysis_results # {}

\* C6: the matched subset a call returns is exactly the rows whose
\* description is non-null and holds the material as a literal
\* case-insensitive substring.
C6_LiteralSubstringMatch ==
    pc = "returned" => MatchedRows = LiteralRows

\* C9: when the script run has ended, every material of all_materials whose
\* analysis returns a summary is recorded in analysis_results, also when
\* the analysis of another material failed.
C9_FailureIsolated ==
    pc \in {"raised", "done"} =>
        \A m \in all_materials : HasSummary(m) => m \in DOMAIN analysis_results

----------------------------------------------------------------------------
(***************************************************************************)
(* Reference statistics, written from the definitions: the k-th smallest   *)
(* value by counting, a percentile as the weighted mean of the two order   *)
(* statistics around rank (n - 1) * p, the fences by cross-multiplying.    *)
(***************************************************************************)
ValuesOf(col) == LET d == dropna(col) IN [i \in 1..Len(d) |-> d[i].num]

OrderStatistic(vals, k) ==
    CHOOSE x \in Range(vals) :
        /\ Cardinality({i \in 1..Len(vals) : vals[i] < x}) < k
        /\ Cardinality({i \in 1..Len(vals) : vals[i] <= x}) >= k

\* den times the percentile num/den of vals
ScaledPercentile(vals, num, den) ==
    LET h == (Len(vals) - 1) * num
        lo == h \div den
        r == h % den
    IN  IF r = 0 THEN den * OrderStatistic(vals, lo + 1)
        ELSE (den - r) * OrderStatistic(vals, lo + 1) + r * OrderStatistic(vals, lo + 2)

\* the values within [Q1 - 1.5 IQR, Q3 + 1.5 IQR], bounds included
Retained(vals) ==
    LET q1 == ScaledPercentile(vals, 1, 4)
        q3 == ScaledPercentile(vals, 3, 4)
        Inside(v) == /\ 8 * v >= 5 * q1 - 3 * q3
                     /\ 8 * v <= 5 * q3 - 3 * q1
    IN  SelectSeq(vals, Inside)

RefTrimmedMedian(col) ==
    LET kept == Retained(ValuesOf(col))
    IN  IF ValuesOf(col) = <<>> \/ kept = <<>> THEN NaN
        ELSE LET twice == ScaledPercentile(kept, 1, 2)
             IN  Eighths(twice \div 2)

Returned == pc = "returned" /\ result # None

IsExample(col) == ValuesOf(col) = [i \in 1..Len(ExampleSample) |-> 8 * ExampleSample[i]]

\* C7: for each metric on its own, the trimmed median of a summary is the
\* linear-interpolation median of the non-null values within the inclusive
\* fences Q1 - 1.5 IQR and Q3 + 1.5 IQR; for [10, 12, 11, 13, 9, 1000] it is
\* 11, the median of the five values other than 1000.
C7_TrimmedMedianIsReference ==
    Returned =>
        /\ result.median_ee = RefTrimmedMedian(EmbodiedEnergy(result.data))
        /\ result.median_ec = RefTrimmedMedian(EmbodiedCarbon(result.data))
        /\ IsExample(EmbodiedEnergy(result.data)) => result.median_ee = Num(11)
        /\ IsExample(EmbodiedCarbon(result.data)) => result.median_ec = Num(11)

\* the example, in rows of which some have no Embodied Carbon
C7_Witness ==
    /\ Returned
    /\ IsExample(EmbodiedEnergy(df))
    /\ \E i \in 1..Len(df) : df[i].ec.nan
    /\ Len(Retained(ValuesOf(EmbodiedEnergy(df)))) = Len(df) - 1
    /\ result.median_ee = Num(11)

NoValues(col) == dropna(col) = <<>>

\* C8: a call on a non-empty matched subset returns a summary; a metric
\* without any non-null value has skewness and trimmed median undefined
\* (NaN), and the other metric's skewness and trimmed median are those of
\* its own values.
C8_UndefinedForEmptyMetric ==
    (pc = "returned" /\ df # <<>>) =>
        /\ result # None
        /\ NoValues(EmbodiedEnergy(result.data)) =>
              /\ result.skew_ee.nan /\ result.median_ee.nan
              /\ ~NoValues(EmbodiedCarbon(result.data)) =>
                    /\ ~result.skew_ec.nan /\ ~result.median_ec.nan
                    /\ result.skew_ec.sample = SortInts(ValuesOf(EmbodiedCarbon(result.data)))
                    /\ result.median_ec = RefTrimmedMedian(EmbodiedCarbon(result.data))
        /\ NoValues(EmbodiedCarbon(result.data)) =>
              /\ result.skew_ec.nan /\ result.median_ec.nan
              /\ ~NoValues(EmbodiedEnergy(result.data)) =>
                    /\ ~result.skew_ee.nan /\ ~result.median_ee.nan
                    /\ result.skew_ee.sample = SortInts(ValuesOf(EmbodiedEnergy(result.data)))
                    /\ result.median_ee = RefTrimmedMedian(EmbodiedEnergy(result.data))

C8_Witness ==
    /\ Returned
    /\ Len(df) >= 2
    /\ NoValues(EmbodiedEnergy(df))
    /\ ~NoValues(EmbodiedCarbon(df))
    /\ result.median_ee.nan
    /\ ~result.median_ec.nan

\* C10: the trim never removes every value: the trimmed median of a metric
\* is undefined exactly when the metric has no non-null value in the
\* matched subset (all-equal values, IQR = 0, are all retained).
C10_TrimNeverEmpties ==
    Returned =>
        /\ result.median_ee.nan <=> NoValues(EmbodiedEnergy(result.data))
        /\ result.median_ec.nan <=> NoValues(EmbodiedCarbon(result.data))
        /\ ~NoValues(EmbodiedEnergy(result.data)) =>
              iqr_clean(EmbodiedEnergy(result.data)) # <<>>
        /\ ~NoValues(EmbodiedCarbon(result.data)) =>
              iqr_clean(EmbodiedCarbon(result.data)) # <<>>

\* three or more equal values (IQR = 0): all are retained
C10_Witness ==
    /\ Returned
    /\ Len(df) >= 3
    /\ \A i \in 1..Len(df) : df[i].ee = Num(1)
    /\ result.median_ee = Num(1)

====
